---- MODULE Spec2Model ----
(***************************************************************************)
(* The resumable concurrent crawler of provider_discovery                  *)
(* (crawl_service_workers.py: download_with_record, process_result,        *)
(* fetch_url) as a state machine: the persisted Index file and the slot    *)
(* files survive a process termination, everything else is volatile.       *)
(***************************************************************************)
EXTENDS Integers, Sequences, FiniteSets, TLC

\* ---------------------------------------------------------------- bounds
NumUrls == 2
MaxLen == 2
NumFiles == 3
MaxPairs == 3
MaxIndex == 3
MaxFragments == 2

URLS == 1..NumUrls

\* ------------------------------------------------------ program constants
SUCCESS == 0
ALREADY_CRAWLED == 1
FAIL == 2
\* JSON null, the FAILED sentinel of the Index
None == -1
\* compare_ssdeep.py
SIMILARITY_THRESHOLD == 90

\* ------------------------------------------------------------- variables
VARIABLES
    diskIndex,      \* unknown-providers-index.json: [kind, map]
    files,          \* slot files {out_path}/{slot}.js: slot -> bytes
    pc,             \* position of the main thread ("idle": no process)
    urls,           \* the candidate list, the same in every run
    crawled_index,  \* the in-memory Index
    count,          \* the slot counter
    urls_to_fetch,  \* the outstanding URLs, one future each
    tstate,         \* per future: "queued", "fetching", "done"
    fut,            \* per future: what future.result() gives
    completed,      \* futures in completion order, not yet yielded
    yielded,        \* futures as_completed has yielded
    cur,            \* process_result's arguments: [url, crawl_result, content]
    lock,           \* "free" or the thread holding the Lock
    retval,         \* what download_with_record returned
    handler,        \* process_result was called from the except branch (line 69)
    \* src/main.py: the sequential download_with_record
    seqIdx,         \* the position in urls of the for loop
    owner,          \* per slot file: the URL whose download created it
    \* history, for the statements only
    runFetch,       \* per URL: requests.get calls in the current run
    recorded,       \* per URL: outcomes recorded in the current run
    diskAtStart,    \* the persisted state the current run found
    lastPersisted,  \* the Index as of the last completed json.dump
    workerAccess,   \* crawl state the worker threads touched in this run
    prevEnd,        \* how the run before ended
    fetchedBefore,  \* the URLs requested in an earlier run
    \* compare_ssdeep.py: main's locals
    stage,          \* position of compare_ssdeep.main ("off": not running)
    mode,           \* "main", "index": the pipeline; "direct": build_clusters on any pairs
    index,          \* unknown-providers-index.json as json.load gives it
    fkind,          \* per path: what is on disk
    score,          \* ssdeep.compare of the digests of two paths
    threshold,      \* SIMILARITY_THRESHOLD or sys.argv[1]
    pairsIn,        \* the pairs a direct caller passes to build_clusters
    path_to_urls,   \* load_index: path -> URLs
    path_to_hash,   \* hash_all_files: the hashed paths, in insertion order
    no_hash,        \* hash_all_files: the paths without a digest
    comparisons,    \* the calls of ssdeep.compare made, in order
    pairs,          \* compare_hashes: the retained pairs
    uf,             \* build_clusters: the parent dict and its key order
    pairIdx,        \* build_clusters: the next pair of the union loop
    clusters,       \* build_clusters: its result
    deduplicated,   \* build_deduplicated_list: its result
    \* detect_push_providers.py: is_push_related
    pushStage,      \* position in is_push_related ("off": not called)
    content,        \* its argument, a sequence of characters
    lowered,        \* c = content.lower()
    verdict,        \* what it returned
    \* compare_ssdeep.py: find and union of build_clusters, step by step
    find            \* the call of find in progress: its locals and its caller

vars == <<diskIndex, files, pc, urls, crawled_index, count,
          urls_to_fetch, tstate, fut, completed, yielded, cur, lock, retval,
          runFetch, recorded, diskAtStart, lastPersisted, workerAccess,
          prevEnd, fetchedBefore,
          stage, mode, index, fkind, score, threshold, pairsIn, path_to_urls,
          path_to_hash, no_hash, comparisons, pairs, uf, pairIdx, clusters,
          deduplicated, handler, seqIdx, owner,
          pushStage, content, lowered, verdict, find>>

dedupVars == <<stage, mode, index, fkind, score, threshold, pairsIn, path_to_urls,
               path_to_hash, no_hash, comparisons, pairs, uf, pairIdx, clusters,
               deduplicated>>

pushVars == <<pushStage, content, lowered, verdict>>
seqVars == <<seqIdx, owner>>
extVars == <<dedupVars, pushVars, seqVars, find>>

disk == <<diskIndex, files>>
volatile == <<crawled_index, count, urls_to_fetch, tstate, fut,
              completed, yielded, cur, lock>>
runHist == <<runFetch, recorded, diskAtStart, workerAccess>>
prev == <<prevEnd, fetchedBefore>>

\* --------------------------------------------------------------- helpers
EmptyMap == [u \in {} |-> None]
Zeros == [u \in URLS |-> 0]
NoArgs == [url |-> 0, crawl_result |-> ALREADY_CRAWLED, content |-> <<>>]

IsInjective(s) == \A i, j \in 1..Len(s) : s[i] = s[j] => i = j
SeqsUpTo(S, n) == UNION {[1..k -> S] : k \in 0..n}
CandidateLists == SeqsUpTo(URLS, MaxLen)

Put(f, k, v) == [x \in DOMAIN f \cup {k} |-> IF x = k THEN v ELSE f[x]]

\* the file on disk: absent, unparsable, or the JSON object last dumped
AbsentFile == [kind |-> "absent", map |-> EmptyMap]
CorruptFile == [kind |-> "corrupt", map |-> EmptyMap]
JsonFile(m) == [kind |-> "json", map |-> m]

\* bytes of a slot file: <<>> right after open(path, "wb"), then the content
Truncated == <<>>
Bytes(u) == <<u>>

\* ------------------------------------------------- download_with_record
\* lines 27-31: json.load, or {} when the file does not exist
LoadIndexEmpty(d) == EmptyMap
LoadIndex(d) == IF d.kind = "json" THEN d.map ELSE EmptyMap

\* lines 27-30: json.load raises unless the file is JSON; only
\* FileNotFoundError is caught
LoadableAlways(d) == TRUE
Loadable(d) == d.kind # "corrupt"

\* line 33: count = len([k for k in crawled_index if crawled_index[k] is not None])
CountAllKeys(idx) == Cardinality(DOMAIN idx)
InitialCount(idx) == Cardinality({k \in DOMAIN idx : idx[k] # None})

\* lines 34 and 75: `u not in crawled_index`, `url in crawled_index`
IsResolvedSuccessOnly(u, idx) == u \in DOMAIN idx /\ idx[u] # None
IsResolved(u, idx) == u \in DOMAIN idx

\* line 34: urls_to_fetch = [u for u in urls if u not in crawled_index]
UrlsToFetchAll(l, idx) == l
UrlsToFetch(l, idx) == SelectSeq(l, LAMBDA u : ~IsResolved(u, idx))

\* line 42: with lock
LockAcquireNoop(l, t) == l
LockAcquire(l, t) == t

\* lines 50 and 53: crawled_index[url] = count / None
RecordOnlySuccess(idx, u, r, c) == IF r = SUCCESS THEN Put(idx, u, c) ELSE idx
RecordOutcome(idx, u, r, c) == Put(idx, u, IF r = SUCCESS THEN c ELSE None)

\* line 51: count += 1
NextCountSame(c) == c
NextCount(c) == c + 1

\* lines 64-69: future.result() gives the worker's pair, or raises what the
\* worker raised and the except branch records FAIL
ResultDroppingException(f) ==
    IF f.raised THEN [crawl_result |-> ALREADY_CRAWLED, content |-> <<>>]
    ELSE [crawl_result |-> f.crawl_result, content |-> f.content]
ResultToProcess(f) ==
    IF f.raised THEN [crawl_result |-> FAIL, content |-> <<>>]
    ELSE [crawl_result |-> f.crawl_result, content |-> f.content]

Running == pc # "idle"
Tasks == 1..Len(urls_to_fetch)
InCommit == pc \in {"cs", "write", "record", "persist", "dump"}

CrawlerInit ==
    /\ diskIndex = AbsentFile
    /\ files = EmptyMap
    /\ pc = "idle"
    /\ urls \in CandidateLists
    /\ crawled_index = EmptyMap
    /\ count = 0
    /\ urls_to_fetch = <<>>
    /\ tstate = <<>>
    /\ fut = <<>>
    /\ completed = <<>>
    /\ yielded = {}
    /\ cur = NoArgs
    /\ lock = "free"
    /\ retval = None
    /\ runFetch = Zeros
    /\ recorded = Zeros
    /\ diskAtStart = <<AbsentFile, EmptyMap>>
    /\ lastPersisted = AbsentFile
    /\ workerAccess = {}
    /\ prevEnd = "none"
    /\ fetchedBefore = {}
    /\ handler = FALSE
    /\ seqIdx = 0
    /\ owner = EmptyMap

\* compare_ssdeep.main is not running
DedupOff ==
    /\ stage = "off"
    /\ mode = "main"
    /\ index = <<>>
    /\ fkind = <<>>
    /\ score = <<>>
    /\ threshold = SIMILARITY_THRESHOLD
    /\ pairsIn = <<>>
    /\ path_to_urls = <<>>
    /\ path_to_hash = <<>>
    /\ no_hash = <<>>
    /\ comparisons = <<>>
    /\ pairs = <<>>
    /\ uf = [parent |-> <<>>, order |-> <<>>]
    /\ pairIdx = 0
    /\ clusters = <<>>
    /\ deduplicated = <<>>

\* is_push_related is not being called
PushOff ==
    /\ pushStage = "off"
    /\ content = <<>>
    /\ lowered = <<>>
    /\ verdict = FALSE

\* no call of find is in progress
NoFind == [pc |-> "idle", who |-> "none", arg |-> 0, x |-> 0, stack |-> <<>>,
           visited |-> {}, px |-> 0, y |-> 0, rootIdx |-> 1,
           atCall |-> <<>>]
FindOff == find = NoFind

Init == CrawlerInit /\ DedupOff /\ PushOff /\ FindOff

\* lines 24-38 and 58-61: load, filter, submit one future per outstanding URL
StartRun ==
    /\ pc = "idle"
    /\ Loadable(diskIndex)
    /\ crawled_index' = LoadIndex(diskIndex)
    /\ count' = InitialCount(crawled_index')
    /\ urls_to_fetch' = UrlsToFetch(urls, crawled_index')
    /\ tstate' = [i \in 1..Len(urls_to_fetch') |-> "queued"]
    /\ fut' = [i \in 1..Len(urls_to_fetch') |-> NoArgs]
    /\ completed' = <<>>
    /\ yielded' = {}
    /\ cur' = NoArgs
    /\ lock' = "free"
    /\ pc' = "wait"
    /\ runFetch' = Zeros
    /\ recorded' = Zeros
    /\ diskAtStart' = <<diskIndex, files>>
    /\ workerAccess' = {}
    /\ UNCHANGED <<urls, extVars, handler, disk, retval, lastPersisted, prev>>

\* lines 27-29: json.load raises on a file that is not JSON; the run ends there
StartRunCorrupt ==
    /\ pc = "idle"
    /\ ~Loadable(diskIndex)
    /\ prevEnd' = "aborted"
    /\ UNCHANGED <<urls, extVars, handler, disk, pc, volatile, retval, runHist, lastPersisted,
                   fetchedBefore>>

\* fetch_url lines 75-76, on a pool thread
WorkerCheck(i) ==
    /\ Running
    /\ i \in Tasks
    /\ tstate[i] = "queued"
    /\ workerAccess' = workerAccess \cup {[obj |-> "crawled_index", op |-> "read"]}
    /\ IF IsResolved(urls_to_fetch[i], crawled_index)
         THEN /\ tstate' = [tstate EXCEPT ![i] = "done"]
              /\ fut' = [fut EXCEPT ![i] =
                    [raised |-> FALSE, crawl_result |-> ALREADY_CRAWLED, content |-> <<>>]]
              /\ completed' = Append(completed, i)
         ELSE /\ tstate' = [tstate EXCEPT ![i] = "fetching"]
              /\ UNCHANGED <<fut, completed>>
    /\ UNCHANGED <<urls, extVars, handler, disk, pc, crawled_index, count, urls_to_fetch,
                   yielded, cur, lock, retval, runFetch, recorded, diskAtStart,
                   lastPersisted, prev>>

\* what requests.get and the lines after it give: 200, anything else or a
\* RequestException, or an exception fetch_url does not catch
FetchOutcomes(u) ==
    { [raised |-> FALSE, crawl_result |-> SUCCESS, content |-> Bytes(u)],
      [raised |-> FALSE, crawl_result |-> FAIL, content |-> <<>>],
      [raised |-> TRUE, crawl_result |-> FAIL, content |-> <<>>] }

\* fetch_url lines 77-87, on a pool thread
WorkerFetchHangs(i) ==
    /\ Running
    /\ i \in Tasks
    /\ tstate[i] = "fetching"
    /\ UNCHANGED vars

WorkerFetch(i) ==
    /\ Running
    /\ i \in Tasks
    /\ tstate[i] = "fetching"
    /\ \E o \in FetchOutcomes(urls_to_fetch[i]) :
          fut' = [fut EXCEPT ![i] = o]
    /\ tstate' = [tstate EXCEPT ![i] = "done"]
    /\ completed' = Append(completed, i)
    /\ runFetch' = [runFetch EXCEPT ![urls_to_fetch[i]] = @ + 1]
    /\ UNCHANGED <<urls, extVars, handler, disk, pc, crawled_index, count, urls_to_fetch,
                   yielded, cur, lock, retval, recorded, diskAtStart,
                   lastPersisted, workerAccess, prev>>

\* lines 62-69 and 42: the next completed future, its result or the FAIL that
\* stands for its exception, and the lock
MainTake ==
    /\ pc = "wait"
    /\ completed # <<>>
    /\ LET i == Head(completed) IN
        /\ cur' = [url |-> urls_to_fetch[i],
                   crawl_result |-> ResultToProcess(fut[i]).crawl_result,
                   content |-> ResultToProcess(fut[i]).content]
        /\ yielded' = yielded \cup {i}
    /\ completed' = Tail(completed)
    /\ lock = "free"
    /\ lock' = LockAcquire(lock, "main")
    /\ pc' = "cs"
    /\ handler' = fut[Head(completed)].raised
    /\ UNCHANGED <<urls, extVars, disk, crawled_index, count, urls_to_fetch,
                   tstate, fut, retval, runHist, lastPersisted, prev>>

\* lines 43-44
CsAlready ==
    /\ pc = "cs"
    /\ cur.crawl_result = ALREADY_CRAWLED
    /\ lock' = "free"
    /\ pc' = "wait"
    /\ cur' = NoArgs
    /\ handler' = FALSE
    /\ UNCHANGED <<urls, extVars, disk, crawled_index, count, urls_to_fetch,
                   tstate, fut, completed, yielded, retval, runHist,
                   lastPersisted, prev>>

\* lines 46-48: open(path, "wb") creates or truncates {count}.js
CsOpenSlot ==
    /\ pc = "cs"
    /\ cur.crawl_result = SUCCESS
    /\ files' = Put(files, count, Truncated)
    /\ pc' = "write"
    /\ UNCHANGED <<urls, extVars, handler, diskIndex, volatile, retval, runHist, lastPersisted, prev>>

\* line 49 and the end of the with block: the content is in the file
CsWriteSlotUnflushed ==
    /\ pc = "write"
    /\ pc' = "record"
    /\ UNCHANGED <<urls, extVars, handler, disk, volatile, retval, runHist, lastPersisted, prev>>

CsWriteSlot ==
    /\ pc = "write"
    /\ files' = Put(files, count, cur.content)
    /\ pc' = "record"
    /\ UNCHANGED <<urls, extVars, handler, diskIndex, volatile, retval, runHist, lastPersisted, prev>>

\* lines 50-51
CsRecordSuccess ==
    /\ pc = "record"
    /\ crawled_index' = RecordOutcome(crawled_index, cur.url, SUCCESS, count)
    /\ count' = NextCount(count)
    /\ recorded' = [recorded EXCEPT ![cur.url] = @ + 1]
    /\ pc' = "persist"
    /\ UNCHANGED <<urls, extVars, handler, disk, urls_to_fetch, tstate, fut, completed,
                   yielded, cur, lock, retval, runFetch, diskAtStart,
                   workerAccess, lastPersisted, prev>>

\* lines 52-53
CsRecordFail ==
    /\ pc = "cs"
    /\ cur.crawl_result = FAIL
    /\ crawled_index' = RecordOutcome(crawled_index, cur.url, FAIL, count)
    /\ recorded' = [recorded EXCEPT ![cur.url] = @ + 1]
    /\ pc' = "persist"
    /\ UNCHANGED <<urls, extVars, handler, disk, count, urls_to_fetch, tstate, fut,
                   completed, yielded, cur, lock, retval, runFetch, diskAtStart,
                   workerAccess, lastPersisted, prev>>

\* line 55: open(index_path, "w") truncates the Index file in place
CsOpenIndex ==
    /\ pc = "persist"
    /\ diskIndex' = CorruptFile
    /\ pc' = "dump"
    /\ UNCHANGED <<urls, extVars, handler, files, volatile, retval, runHist, lastPersisted, prev>>

\* line 56 and the end of both with blocks: the whole map is in the file
CsDumpIndex ==
    /\ pc = "dump"
    /\ diskIndex' = JsonFile(crawled_index)
    /\ lastPersisted' = JsonFile(crawled_index)
    /\ lock' = "free"
    /\ cur' = NoArgs
    /\ pc' = "wait"
    /\ handler' = FALSE
    /\ UNCHANGED <<urls, extVars, files, crawled_index, count, urls_to_fetch,
                   tstate, fut, completed, yielded, retval, runHist, prev>>

\* lines 62 and 71: every future was yielded; return count
MainReturn ==
    /\ pc = "wait"
    /\ yielded = Tasks
    /\ retval' = count
    /\ pc' = "returned"
    /\ UNCHANGED <<urls, extVars, handler, disk, volatile, runHist, lastPersisted, prev>>

EndRun(how) ==
    /\ prevEnd' = how
    /\ fetchedBefore' = fetchedBefore \cup {u \in URLS : runFetch[u] > 0}
    /\ pc' = "idle"
    /\ crawled_index' = EmptyMap
    /\ count' = 0
    /\ urls_to_fetch' = <<>>
    /\ tstate' = <<>>
    /\ fut' = <<>>
    /\ completed' = <<>>
    /\ yielded' = {}
    /\ cur' = NoArgs
    /\ lock' = "free"
    /\ handler' = FALSE
    /\ UNCHANGED <<urls, extVars, disk, retval, runHist, lastPersisted>>

\* the process ends after download_with_record returned
Exit ==
    /\ pc = "returned"
    /\ EndRun("completed")

\* the process is terminated at any point of a run
Crash ==
    /\ pc \notin {"idle", "returned"}
    /\ EndRun("crashed")

Next ==
    \/ StartRun
    \/ StartRunCorrupt
    \/ \E i \in 1..MaxLen : WorkerCheck(i)
    \/ \E i \in 1..MaxLen : WorkerFetch(i)
    \/ MainTake
    \/ CsAlready
    \/ CsOpenSlot
    \/ CsWriteSlot
    \/ CsRecordSuccess
    \/ CsRecordFail
    \/ CsOpenIndex
    \/ CsDumpIndex
    \/ MainReturn
    \/ Exit
    \/ Crash

Spec == Init /\ [][Next]_vars

\* -------------------- download_with_record when a write of the commit raises
\* the except branch (lines 67-69): process_result(url, CrawlResult.FAIL, None),
\* after `with lock` released the lock on the way out and takes it again
HandlerCall ==
    /\ cur' = [url |-> cur.url, crawl_result |-> FAIL, content |-> <<>>]
    /\ handler' = TRUE
    /\ lock' = LockAcquire("free", "main")
    /\ pc' = "cs"

\* lines 48-49: open(path, "wb") or f.write raises OSError; what was written
\* of the slot file stays
CsSlotFails ==
    /\ \/ pc = "cs" /\ cur.crawl_result = SUCCESS
       \/ pc = "write"
    /\ HandlerCall
    /\ UNCHANGED <<urls, extVars, disk, crawled_index, count, urls_to_fetch,
                   tstate, fut, completed, yielded, retval, runHist,
                   lastPersisted, prev>>

\* lines 55-56: open(index_path, "w") or json.dump raises OSError; the first
\* time the except branch runs, out of the except branch the exception leaves
\* download_with_record
CsIndexFails ==
    /\ pc \in {"persist", "dump"}
    /\ IF handler
         THEN /\ pc' = "raised"
              /\ lock' = "free"
              /\ cur' = NoArgs
              /\ handler' = FALSE
         ELSE HandlerCall
    /\ UNCHANGED <<urls, extVars, disk, crawled_index, count, urls_to_fetch,
                   tstate, fut, completed, yielded, retval, runHist,
                   lastPersisted, prev>>

\* the exception ends the process
RunRaises ==
    /\ pc = "raised"
    /\ EndRun("aborted")

NextIO ==
    \/ StartRun
    \/ StartRunCorrupt
    \/ \E i \in 1..MaxLen : WorkerCheck(i)
    \/ \E i \in 1..MaxLen : WorkerFetch(i)
    \/ MainTake
    \/ CsAlready
    \/ CsOpenSlot
    \/ CsWriteSlot
    \/ CsRecordSuccess
    \/ CsRecordFail
    \/ CsOpenIndex
    \/ CsDumpIndex
    \/ MainReturn
    \/ Exit
    \/ CsSlotFails
    \/ CsIndexFails
    \/ RunRaises

SpecIO == Init /\ [][NextIO]_vars

\* ------------------------- download_with_record under a fair scheduler
\* lines 62-71: the steps of the main thread inside a run
MainStep ==
    \/ MainTake
    \/ CsAlready
    \/ CsOpenSlot
    \/ CsWriteSlot
    \/ CsRecordSuccess
    \/ CsRecordFail
    \/ CsOpenIndex
    \/ CsDumpIndex
    \/ MainReturn

\* runs that are not terminated from outside
NextLive ==
    \/ StartRun
    \/ \E i \in 1..MaxLen : WorkerCheck(i)
    \/ \E i \in 1..MaxLen : WorkerFetch(i)
    \/ MainStep
    \/ Exit

\* the main thread keeps running; each future has a pool thread of its own
\* (max_workers=30, line 58) and requests.get returns or raises (timeout=5,
\* line 78)
Fairness ==
    /\ WF_vars(MainStep)
    /\ \A i \in 1..MaxLen : WF_vars(WorkerCheck(i)) /\ WF_vars(WorkerFetch(i))

SpecLive == Init /\ [][NextLive]_vars /\ Fairness

\* ------------------------------- src/main.py: the sequential downloader
\* It keeps the Index file and the slot files as crawl_service_workers.py
\* does; diskIndex, files, urls, crawled_index, count, cur, pc, retval and
\* prevEnd are its state, seqIdx is the position of its for loop.

\* line 60: count = len(crawled_index)
SeqInitialCount(idx) == Cardinality(DOMAIN idx)

\* lines 69 and 71: urls[resume_idx:], as the first position taken (from 1)
ResumeFrom(c) == c + 1

\* line 98: os.path.exists(path), path = {count}.js
PathExists(fs, slot) == slot \in DOMAIN fs

\* lines 78 and 84: crawled_index[url] = count / None
SeqRecordSlotZero(idx, u, r, c) == Put(idx, u, IF r = SUCCESS THEN 0 ELSE None)
SeqRecord(idx, u, r, c) == Put(idx, u, IF r = SUCCESS THEN c ELSE None)

SeqScratch == <<urls_to_fetch, tstate, fut, completed, yielded, lock, handler,
                runFetch, recorded, diskAtStart, lastPersisted, workerAccess,
                fetchedBefore>>

\* lines 54-69: load the Index, count, resume_idx
SeqStart ==
    /\ pc = "idle"
    /\ Loadable(diskIndex)
    /\ crawled_index' = LoadIndex(diskIndex)
    /\ count' = SeqInitialCount(crawled_index')
    /\ seqIdx' = ResumeFrom(count')
    /\ cur' = NoArgs
    /\ pc' = "loop"
    /\ UNCHANGED <<urls, dedupVars, pushVars, find, SeqScratch, disk, owner, retval, prevEnd>>

\* lines 54-56: json.load raises on a file that is not JSON
SeqStartCorrupt ==
    /\ pc = "idle"
    /\ ~Loadable(diskIndex)
    /\ pc' = "load_error"
    /\ UNCHANGED <<urls, dedupVars, pushVars, find, SeqScratch, disk, owner, retval, prevEnd,
                   crawled_index, count, seqIdx, cur>>

\* lines 71-72, 94-96 and 81-82: the next URL is in the Index already
SeqAlready ==
    /\ pc = "loop"
    /\ seqIdx <= Len(urls)
    /\ IsResolved(urls[seqIdx], crawled_index)
    /\ seqIdx' = seqIdx + 1
    /\ UNCHANGED <<urls, dedupVars, pushVars, find, SeqScratch, disk, owner, retval, prevEnd,
                   crawled_index, count, cur, pc>>

\* lines 98-100: the slot file exists, download_file raises FileExistsError
SeqFileExists ==
    /\ pc = "loop"
    /\ seqIdx <= Len(urls)
    /\ ~IsResolved(urls[seqIdx], crawled_index)
    /\ PathExists(files, count)
    /\ pc' = "file_exists"
    /\ UNCHANGED <<urls, dedupVars, pushVars, find, SeqScratch, disk, owner, retval, prevEnd,
                   crawled_index, count, seqIdx, cur>>

\* lines 102-105: requests.get is called
SeqRequest ==
    /\ pc = "loop"
    /\ seqIdx <= Len(urls)
    /\ ~IsResolved(urls[seqIdx], crawled_index)
    /\ ~PathExists(files, count)
    /\ cur' = [url |-> urls[seqIdx], crawl_result |-> FAIL, content |-> <<>>]
    /\ pc' = "fetch"
    /\ UNCHANGED <<urls, dedupVars, pushVars, find, SeqScratch, disk, owner, retval, prevEnd,
                   crawled_index, count, seqIdx>>

\* lines 105-107: status 200, open(path, "wb") creates the slot file
SeqOpenSlot ==
    /\ pc = "fetch"
    /\ files' = Put(files, count, Truncated)
    /\ owner' = Put(owner, count, cur.url)
    /\ cur' = [cur EXCEPT !.content = Bytes(cur.url)]
    /\ pc' = "fwrite"
    /\ UNCHANGED <<urls, dedupVars, pushVars, find, SeqScratch, diskIndex, retval, prevEnd,
                   crawled_index, count, seqIdx>>

\* lines 108-109: the content is in the file, download_file returns SUCCESS
SeqWriteSlot ==
    /\ pc = "fwrite"
    /\ files' = Put(files, count, cur.content)
    /\ cur' = [cur EXCEPT !.crawl_result = SUCCESS]
    /\ pc' = "got"
    /\ UNCHANGED <<urls, dedupVars, pushVars, find, SeqScratch, diskIndex, owner, retval,
                   prevEnd, crawled_index, count, seqIdx>>

\* lines 110-119: another status or a RequestException, download_file
\* returns FAIL
SeqFetchFail ==
    /\ pc = "fetch"
    /\ pc' = "got"
    /\ UNCHANGED <<urls, dedupVars, pushVars, find, SeqScratch, disk, owner, retval, prevEnd,
                   crawled_index, count, seqIdx, cur>>

\* line 105: an exception that is no RequestException leaves download_file
\* and download_with_record
SeqFetchRaises ==
    /\ pc = "fetch"
    /\ pc' = "raised"
    /\ UNCHANGED <<urls, dedupVars, pushVars, find, SeqScratch, disk, owner, retval, prevEnd,
                   crawled_index, count, seqIdx, cur>>

\* lines 77-84
SeqRecordResult ==
    /\ pc = "got"
    /\ crawled_index' = SeqRecord(crawled_index, cur.url, cur.crawl_result, count)
    /\ count' = IF cur.crawl_result = SUCCESS THEN count + 1 ELSE count
    /\ pc' = "persist"
    /\ UNCHANGED <<urls, dedupVars, pushVars, find, SeqScratch, disk, owner, retval, prevEnd,
                   seqIdx, cur>>

\* line 86: open(..., "w") truncates the Index file in place
SeqOpenIndex ==
    /\ pc = "persist"
    /\ diskIndex' = CorruptFile
    /\ pc' = "dump"
    /\ UNCHANGED <<urls, dedupVars, pushVars, find, SeqScratch, files, owner, retval, prevEnd,
                   crawled_index, count, seqIdx, cur>>

\* line 87: the whole map is in the file; next turn of the loop
SeqDumpIndex ==
    /\ pc = "dump"
    /\ diskIndex' = JsonFile(crawled_index)
    /\ seqIdx' = seqIdx + 1
    /\ cur' = NoArgs
    /\ pc' = "loop"
    /\ UNCHANGED <<urls, dedupVars, pushVars, find, SeqScratch, files, owner, retval, prevEnd,
                   crawled_index, count>>

\* lines 71 and 89: the list is exhausted; return count
SeqReturn ==
    /\ pc = "loop"
    /\ seqIdx > Len(urls)
    /\ retval' = count
    /\ pc' = "returned"
    /\ UNCHANGED <<urls, dedupVars, pushVars, find, SeqScratch, disk, owner, prevEnd,
                   crawled_index, count, seqIdx, cur>>

\* the process ends; what is not on disk is gone
SeqEnd(how) ==
    /\ prevEnd' = how
    /\ pc' = "idle"
    /\ crawled_index' = EmptyMap
    /\ count' = 0
    /\ seqIdx' = 0
    /\ cur' = NoArgs
    /\ UNCHANGED <<urls, dedupVars, pushVars, find, SeqScratch, disk, owner, retval>>

SeqExit == pc = "returned" /\ SeqEnd("completed")
SeqAbort == pc \in {"load_error", "file_exists", "raised"} /\ SeqEnd("aborted")
SeqCrash == pc \in {"loop", "fetch", "fwrite", "got", "persist", "dump"} /\ SeqEnd("crashed")

NextSeq ==
    \/ SeqStart
    \/ SeqStartCorrupt
    \/ SeqAlready
    \/ SeqFileExists
    \/ SeqRequest
    \/ SeqOpenSlot
    \/ SeqWriteSlot
    \/ SeqFetchFail
    \/ SeqFetchRaises
    \/ SeqRecordResult
    \/ SeqOpenIndex
    \/ SeqDumpIndex
    \/ SeqReturn
    \/ SeqExit
    \/ SeqAbort
    \/ SeqCrash

SpecSeq == Init /\ [][NextSeq]_vars

\* --------------------------------------------------- compare_ssdeep.py
\* The paths unknown-providers/{n}.js, numbered by their rank in the order
\* sorted() gives strings.
Files == 1..NumFiles
\* a regular file with content; a zero-byte file; no regular file at the
\* path; a file open() or read() raises OSError on; a file ssdeep.hash gives
\* no digest for
FileKinds == {"data", "empty", "missing", "unreadable", "unhashable"}
ScorePairs == {p \in Files \X Files : p[1] < p[2]}
ScoreValues == {SIMILARITY_THRESHOLD - 1, SIMILARITY_THRESHOLD, SIMILARITY_THRESHOLD + 1}
Thresholds == {SIMILARITY_THRESHOLD, SIMILARITY_THRESHOLD + 1}
OrientedPairs == {p \in Files \X Files : p[1] # p[2]}

SeqRange(q) == {q[i] : i \in 1..Len(q)}
Min(S) == CHOOSE x \in S : \A y \in S : x <= y

\* sorted(): insertion of each element of the list into a sorted list
RECURSIVE InsertSorted(_, _)
InsertSorted(q, x) ==
    IF q = <<>> THEN <<x>>
    ELSE IF x < Head(q) THEN <<x>> \o q
    ELSE <<Head(q)>> \o InsertSorted(Tail(q), x)
Unsorted(q) == q
RECURSIVE Sorted(_)
Sorted(q) == IF q = <<>> THEN <<>> ELSE InsertSorted(Sorted(Tail(q)), Head(q))

\* path_to_urls.get(path, [])
GetUrls(ptu, f) == IF f \in DOMAIN ptu THEN ptu[f] ELSE <<>>

\* lines 37-48: load_index; the URLs are named by their position among the
\* keys of the JSON object, the value is None or the slot of
\* unknown-providers/{value}.js
RECURSIVE PathToUrls(_, _, _)
PathToUrls(idx, u, acc) ==
    IF u > Len(idx) THEN acc
    ELSE IF idx[u] = None THEN PathToUrls(idx, u + 1, acc)
    ELSE PathToUrls(idx, u + 1,
            Put(acc, idx[u],
                IF idx[u] \in DOMAIN acc THEN Append(acc[idx[u]], u) ELSE <<u>>))

\* lines 72-89: what the loop body does with one path: stores a digest,
\* appends the path to no_hash, or lets an exception out of hash_all_files
HashOutcomeUncaught(kind) ==
    IF kind = "data" THEN "digest"
    ELSE IF kind = "unreadable" THEN "raise" ELSE "no_hash"
HashOutcome(kind) == IF kind = "data" THEN "digest" ELSE "no_hash"
Hashable(kind) == HashOutcome(kind) = "digest"

\* lines 63-68: the keys of path_to_urls and the .js files listed on disk
RECURSIVE SetToSeq(_)
SetToSeq(S) ==
    IF S = {} THEN <<>>
    ELSE LET x == CHOOSE y \in S : TRUE IN <<x>> \o SetToSeq(S \ {x})
AllPaths(ptu, fk) == DOMAIN ptu \cup {f \in Files : fk[f] # "missing"}

\* lines 59-91: hash_all_files over sorted(all_paths)
HashRaises(ptu, fk) == \E f \in AllPaths(ptu, fk) : HashOutcome(fk[f]) = "raise"
HashedPaths(ptu, fk) ==
    SelectSeq(Sorted(SetToSeq(AllPaths(ptu, fk))), LAMBDA f : HashOutcome(fk[f]) = "digest")
UnhashedPaths(ptu, fk) ==
    SelectSeq(Sorted(SetToSeq(AllPaths(ptu, fk))), LAMBDA f : HashOutcome(fk[f]) = "no_hash")

\* line 106: itertools.combinations(paths, 2)
CombinationsAdjacent(q) ==
    IF Len(q) < 2 THEN <<>> ELSE [j \in 1..(Len(q) - 1) |-> <<q[j], q[j + 1]>>]
RECURSIVE Combinations(_)
Combinations(q) ==
    IF Len(q) < 2 THEN <<>>
    ELSE [j \in 1..(Len(q) - 1) |-> <<Head(q), Tail(q)[j]>>] \o Combinations(Tail(q))

\* line 111: if score >= threshold
RetainedStrict(sc, t) == sc > t
Retained(sc, t) == sc >= t

\* lines 112-120: the dict appended for a retained pair
PairRecord(a, b, sc, ptu) ==
    [file_a |-> a, file_b |-> b, score |-> sc,
     urls_a |-> GetUrls(ptu, a), urls_b |-> GetUrls(ptu, b)]

\* lines 103-121: compare_hashes
RECURSIVE RetainedPairs(_, _, _, _)
RetainedPairs(cs, sc, t, ptu) ==
    IF cs = <<>> THEN <<>>
    ELSE LET c == Head(cs) IN
         (IF Retained(sc[c], t)
            THEN <<PairRecord(c[1], c[2], sc[c], ptu)>> ELSE <<>>)
         \o RetainedPairs(Tail(cs), sc, t, ptu)

\* lines 131-142: find(x), on the state [parent, order] of the parent dict
EmptyUF == [parent |-> <<>>, order |-> <<>>]
Inserted(st, x) ==
    IF x \in DOMAIN st.parent THEN st
    ELSE [parent |-> Put(st.parent, x, x), order |-> Append(st.order, x)]
RECURSIVE RootOf(_, _)
RootOf(p, x) == IF p[x] = x THEN x ELSE RootOf(p, p[x])
RECURSIVE StackOf(_, _)
StackOf(p, x) == IF p[x] = x THEN {} ELSE {x} \cup StackOf(p, p[x])
FindRoot(st, x) == RootOf(Inserted(st, x).parent, x)
FindState(st, x) ==
    LET s1 == Inserted(st, x)
        r == RootOf(s1.parent, x)
        stk == StackOf(s1.parent, x)
    IN [parent |-> [n \in DOMAIN s1.parent |-> IF n \in stk THEN r ELSE s1.parent[n]],
        order |-> s1.order]

\* lines 144-147: union(x, y)
UnionNoLink(st, x, y) == FindState(FindState(st, x), y)
UnionOfNodes(st, x, y) ==
    LET s2 == FindState(FindState(st, x), y)
    IN IF x # y THEN [s2 EXCEPT !.parent[x] = y] ELSE s2
Union(st, x, y) ==
    LET px == FindRoot(st, x)
        s1 == FindState(st, x)
        py == FindRoot(s1, y)
        s2 == FindState(s1, y)
    IN IF px # py THEN [s2 EXCEPT !.parent[px] = py] ELSE s2

\* lines 152-157: roots, a dict root -> member list, both in insertion order
RECURSIVE GroupByRoot(_, _, _)
GroupByRoot(st, i, acc) ==
    IF i > Len(st.order) THEN acc
    ELSE LET x == st.order[i]
             r == FindRoot(st, x)
             s1 == FindState(st, x)
         IN GroupByRoot(s1, i + 1,
                [st |-> s1,
                 rorder |-> IF r \in DOMAIN acc.members THEN acc.rorder
                            ELSE Append(acc.rorder, r),
                 members |-> Put(acc.members, r,
                                 IF r \in DOMAIN acc.members
                                   THEN Append(acc.members[r], x) ELSE <<x>>)])
Roots(st) == GroupByRoot(st, 1, [st |-> st, rorder |-> <<>>, members |-> <<>>])

\* line 162: representative = members_sorted[0]
RepresentativeIsRoot(root, members_sorted) == root
Representative(root, members_sorted) == members_sorted[1]

\* lines 163-165 and 170: list(dict.fromkeys(all_urls))
AllUrlsOfFirst(ms, ptu) == IF ms = <<>> THEN <<>> ELSE GetUrls(ptu, Head(ms))
RECURSIVE AllUrls(_, _)
AllUrls(ms, ptu) ==
    IF ms = <<>> THEN <<>> ELSE GetUrls(ptu, Head(ms)) \o AllUrls(Tail(ms), ptu)
RECURSIVE KeepFirst(_, _)
KeepFirst(q, seen) ==
    IF q = <<>> THEN <<>>
    ELSE IF Head(q) \in seen THEN KeepFirst(Tail(q), seen)
    ELSE <<Head(q)>> \o KeepFirst(Tail(q), seen \cup {Head(q)})

\* lines 159-173: one cluster per root
ClusterOf(root, members, ptu) ==
    LET members_sorted == Sorted(members)
    IN [representative |-> Representative(root, members_sorted),
        members |-> members_sorted,
        urls |-> KeepFirst(AllUrls(members_sorted, ptu), {})]
ClustersOf(st, ptu) ==
    LET g == Roots(st)
    IN [i \in 1..Len(g.rorder) |-> ClusterOf(g.rorder[i], g.members[g.rorder[i]], ptu)]

\* lines 184-192: build_deduplicated_list
InClusterNone(cl) == {}
InCluster(cl) == UNION {SeqRange(cl[i].members) : i \in 1..Len(cl)}
DedupList(pth, cl) ==
    [i \in 1..Len(cl) |-> cl[i].representative]
    \o SelectSeq(Sorted(pth), LAMBDA f : f \notin InCluster(cl))
DeduplicatedUnsorted(pth, cl) == DedupList(pth, cl)
Deduplicated(pth, cl) == Sorted(DedupList(pth, cl))

\* main has computed nothing yet
NoOutputs ==
    /\ path_to_hash = <<>>
    /\ no_hash = <<>>
    /\ comparisons = <<>>
    /\ pairs = <<>>
    /\ uf = EmptyUF
    /\ pairIdx = 0
    /\ clusters = <<>>
    /\ deduplicated = <<>>

\* the inputs of a run of compare_ssdeep: the pipeline of main on any file set
\* and scores, or build_clusters called with any list of pairs of distinct
\* paths
InitDedup ==
    /\ CrawlerInit
    /\ PushOff
    /\ FindOff
    /\ urls = <<>>
    /\ stage = "start"
    /\ path_to_urls = <<>>
    /\ \/ /\ mode = "main"
          /\ index = [u \in Files |-> u]
          /\ pairsIn = <<>>
          /\ threshold \in Thresholds
          /\ fkind \in [Files -> FileKinds]
          /\ score \in [ScorePairs -> ScoreValues]
          \* ssdeep.compare is never called on a path without a digest
          /\ \A p \in ScorePairs :
                (~Hashable(fkind[p[1]]) \/ ~Hashable(fkind[p[2]]))
                    => score[p] = SIMILARITY_THRESHOLD - 1
       \/ /\ mode = "direct"
          /\ index = [u \in Files |-> u]
          /\ threshold = SIMILARITY_THRESHOLD
          /\ fkind = [f \in Files |-> "data"]
          /\ score = [p \in ScorePairs |-> SIMILARITY_THRESHOLD - 1]
          /\ pairsIn \in SeqsUpTo(OrientedPairs, MaxPairs)
    /\ NoOutputs

crawlerVars == <<diskIndex, files, pc, urls, crawled_index, count,
                 urls_to_fetch, tstate, fut, completed, yielded, cur, lock,
                 retval, runFetch, recorded, diskAtStart, lastPersisted,
                 workerAccess, prevEnd, fetchedBefore, handler, seqIdx, owner>>
inputs == <<mode, index, fkind, score, threshold, pairsIn>>

\* line 207: load_index
load_index ==
    /\ stage = "start"
    /\ path_to_urls' = PathToUrls(index, 1, <<>>)
    /\ stage' = "loaded"
    /\ UNCHANGED <<crawlerVars, pushVars, find, inputs, path_to_hash, no_hash, comparisons, pairs,
                   uf, pairIdx, clusters, deduplicated>>

\* line 208: hash_all_files; an exception it lets out ends main
HashAllFiles ==
    /\ stage = "loaded"
    /\ IF HashRaises(path_to_urls, fkind)
         THEN /\ stage' = "aborted"
              /\ UNCHANGED <<path_to_hash, no_hash>>
         ELSE /\ path_to_hash' = HashedPaths(path_to_urls, fkind)
              /\ no_hash' = UnhashedPaths(path_to_urls, fkind)
              /\ stage' = "hashed"
    /\ UNCHANGED <<crawlerVars, pushVars, find, inputs, path_to_urls, comparisons, pairs, uf, pairIdx, clusters,
                   deduplicated>>

\* line 220: compare_hashes
CompareHashes ==
    /\ stage = "hashed"
    /\ mode \in {"main", "index"}
    /\ comparisons' = Combinations(path_to_hash)
    /\ pairs' = RetainedPairs(comparisons', score, threshold, path_to_urls)
    /\ pairIdx' = 1
    /\ stage' = "union"
    /\ UNCHANGED <<crawlerVars, pushVars, find, inputs, path_to_urls, path_to_hash, no_hash, uf, clusters,
                   deduplicated>>

\* build_clusters called with the caller's own list of pairs
DirectPairs ==
    /\ stage = "hashed"
    /\ mode = "direct"
    /\ pairs' = [i \in 1..Len(pairsIn) |->
                    PairRecord(pairsIn[i][1], pairsIn[i][2], threshold, path_to_urls)]
    /\ pairIdx' = 1
    /\ stage' = "union"
    /\ UNCHANGED <<crawlerVars, pushVars, find, inputs, path_to_urls, path_to_hash, no_hash, comparisons, uf,
                   clusters, deduplicated>>

\* lines 149-150: one turn of the union loop
UnionStep ==
    /\ stage = "union"
    /\ pairIdx <= Len(pairs)
    /\ uf' = Union(uf, pairs[pairIdx].file_a, pairs[pairIdx].file_b)
    /\ pairIdx' = pairIdx + 1
    /\ UNCHANGED <<crawlerVars, pushVars, find, inputs, path_to_urls, stage, path_to_hash, no_hash,
                   comparisons, pairs, clusters, deduplicated>>

\* lines 152-173: the roots and the clusters
BuildClusters ==
    /\ stage = "union"
    /\ pairIdx > Len(pairs)
    /\ uf' = Roots(uf).st
    /\ clusters' = ClustersOf(uf, path_to_urls)
    /\ stage' = "clustered"
    /\ UNCHANGED <<crawlerVars, pushVars, find, inputs, path_to_urls, path_to_hash, no_hash, comparisons,
                   pairs, pairIdx, deduplicated>>

\* line 222: build_deduplicated_list
BuildDeduplicated ==
    /\ stage = "clustered"
    /\ deduplicated' = Deduplicated(path_to_hash, clusters)
    /\ stage' = "done"
    /\ UNCHANGED <<crawlerVars, pushVars, find, inputs, path_to_urls, path_to_hash, no_hash, comparisons,
                   pairs, uf, pairIdx, clusters>>

\* the inputs of a run of compare_ssdeep.main on any Index file: URLs that
\* failed, several URLs of one slot, slots without a file and files of no URL
InitIndex ==
    /\ CrawlerInit
    /\ PushOff
    /\ FindOff
    /\ urls = <<>>
    /\ stage = "start"
    /\ path_to_urls = <<>>
    /\ mode = "index"
    /\ index \in SeqsUpTo(Files \cup {None}, MaxIndex)
    /\ pairsIn = <<>>
    /\ threshold = SIMILARITY_THRESHOLD
    /\ fkind \in [Files -> {"data", "missing"}]
    /\ score \in [ScorePairs -> {SIMILARITY_THRESHOLD - 1, SIMILARITY_THRESHOLD}]
    /\ \A p \in ScorePairs :
          (~Hashable(fkind[p[1]]) \/ ~Hashable(fkind[p[2]]))
              => score[p] = SIMILARITY_THRESHOLD - 1
    /\ NoOutputs

NextDedup ==
    \/ load_index
    \/ HashAllFiles
    \/ CompareHashes
    \/ DirectPairs
    \/ UnionStep
    \/ BuildClusters
    \/ BuildDeduplicated

SpecDedup == InitDedup /\ [][NextDedup]_vars

\* lines 207-222: main
NextIndex ==
    \/ load_index
    \/ HashAllFiles
    \/ CompareHashes
    \/ UnionStep
    \/ BuildClusters
    \/ BuildDeduplicated

SpecIndex == InitIndex /\ [][NextIndex]_vars

\* ------------------- compare_ssdeep.py: find and union, statement by statement
\* line 141: parent[node] = root
CompressToArg(root, arg) == arg
CompressTo(root, arg) == root

\* lines 131-135: find(x) is entered; x gets its own entry if it has none
FindCalled(who, x0, px0, y0) ==
    [pc |-> "walk", who |-> who, arg |-> x0, x |-> x0, stack |-> <<>>,
     visited |-> {}, px |-> px0, y |-> y0, rootIdx |-> find.rootIdx,
     atCall |-> Inserted(uf, x0).parent]

FindFrame == <<crawlerVars, pushVars, inputs, path_to_urls, path_to_hash, no_hash,
               comparisons, pairs, deduplicated>>

\* build_clusters is entered; its list of pairs is any list of at most MaxPairs
\* pairs of two paths, read one pair at a time by UnionFindA
InitFind ==
    /\ CrawlerInit
    /\ PushOff
    /\ FindOff
    /\ urls = <<>>
    /\ stage = "union"
    /\ mode = "direct"
    /\ index = <<>>
    /\ fkind = <<>>
    /\ score = <<>>
    /\ threshold = SIMILARITY_THRESHOLD
    /\ pairsIn = <<>>
    /\ path_to_urls = <<>>
    /\ path_to_hash = <<>>
    /\ no_hash = <<>>
    /\ comparisons = <<>>
    /\ pairs = <<>>
    /\ uf = EmptyUF
    /\ pairIdx = 1
    /\ clusters = <<>>
    /\ deduplicated = <<>>

\* lines 149-150 and 145: union(p["file_a"], p["file_b"]) calls find(x)
UnionFindA ==
    /\ stage = "union"
    /\ find.pc = "idle"
    /\ pairIdx <= MaxPairs
    /\ \E p \in OrientedPairs :
          /\ uf' = Inserted(uf, p[1])
          /\ find' = FindCalled("a", p[1], 0, p[2])
    /\ UNCHANGED <<FindFrame, stage, pairIdx, clusters>>

\* lines 136-138: one turn of `while parent[x] != x`
FindWalk ==
    /\ find.pc = "walk"
    /\ uf.parent[find.x] # find.x
    /\ find' = [find EXCEPT !.stack = Append(@, find.x),
                            !.visited = @ \cup {find.x},
                            !.x = uf.parent[find.x]]
    /\ UNCHANGED <<FindFrame, stage, pairIdx, clusters, uf>>

\* lines 136 and 139: the loop ends, root = x
FindAtRoot ==
    /\ find.pc = "walk"
    /\ uf.parent[find.x] = find.x
    /\ find' = [find EXCEPT !.pc = "compress"]
    /\ UNCHANGED <<FindFrame, stage, pairIdx, clusters, uf>>

\* lines 140-141: one turn of `for node in stack`
FindCompress ==
    /\ find.pc = "compress"
    /\ find.stack # <<>>
    /\ uf' = [uf EXCEPT !.parent[Head(find.stack)] = CompressTo(find.x, find.arg)]
    /\ find' = [find EXCEPT !.stack = Tail(@)]
    /\ UNCHANGED <<FindFrame, stage, pairIdx, clusters>>

\* line 142: return root
FindReturn ==
    /\ find.pc = "compress"
    /\ find.stack = <<>>
    /\ find' = [find EXCEPT !.pc = "ret"]
    /\ UNCHANGED <<FindFrame, stage, pairIdx, clusters, uf>>

\* line 145: px is find(x)'s result; find(y) is called
UnionFindB ==
    /\ find.pc = "ret"
    /\ find.who = "a"
    /\ uf' = Inserted(uf, find.y)
    /\ find' = FindCalled("b", find.y, find.x, 0)
    /\ UNCHANGED <<FindFrame, stage, pairIdx, clusters>>

\* lines 145-147: py is find(y)'s result; if px != py: parent[px] = py
UnionLink ==
    /\ find.pc = "ret"
    /\ find.who = "b"
    /\ uf' = IF find.px # find.x THEN [uf EXCEPT !.parent[find.px] = find.x] ELSE uf
    /\ pairIdx' = pairIdx + 1
    /\ find' = NoFind
    /\ UNCHANGED <<FindFrame, stage, clusters>>

\* lines 149 and 152: the list of pairs is exhausted
PairsEnd ==
    /\ stage = "union"
    /\ find.pc = "idle"
    /\ stage' = "roots"
    /\ UNCHANGED <<FindFrame, pairIdx, clusters, uf, find>>

\* lines 153-154: for path in parent: r = find(path)
RootsFind ==
    /\ stage = "roots"
    /\ find.pc = "idle"
    /\ find.rootIdx <= Len(uf.order)
    /\ find' = FindCalled("roots", uf.order[find.rootIdx], 0, 0)
    /\ UNCHANGED <<FindFrame, stage, pairIdx, clusters, uf>>

\* lines 155-157: roots[r].append(path), the next key of parent
RootsNext ==
    /\ find.pc = "ret"
    /\ find.who = "roots"
    /\ find' = [NoFind EXCEPT !.rootIdx = find.rootIdx + 1]
    /\ UNCHANGED <<FindFrame, stage, pairIdx, clusters, uf>>

\* lines 159-173: the clusters of the roots
RootsDone ==
    /\ stage = "roots"
    /\ find.pc = "idle"
    /\ find.rootIdx > Len(uf.order)
    /\ clusters' = ClustersOf(uf, path_to_urls)
    /\ stage' = "clustered"
    /\ UNCHANGED <<FindFrame, pairIdx, uf, find>>

NextFind ==
    \/ UnionFindA
    \/ FindWalk
    \/ FindAtRoot
    \/ FindCompress
    \/ FindReturn
    \/ UnionFindB
    \/ UnionLink
    \/ PairsEnd
    \/ RootsFind
    \/ RootsNext
    \/ RootsDone

\* lines 135-142: the statements of find after its entry
FindBody ==
    \/ FindWalk
    \/ FindAtRoot
    \/ FindCompress
    \/ FindReturn

\* the thread that is inside find is not stopped there
SpecFind == InitFind /\ [][NextFind]_vars /\ WF_vars(FindBody)

\* ------------------------------------------ detect_push_providers.py
\* Python strings as sequences of characters
Uppers == <<"A", "B", "C", "D", "E", "F", "G", "H", "I", "J", "K", "L", "M", "N", "O", "P", "Q", "R", "S", "T", "U", "V", "W", "X", "Y", "Z">>
Lowers == <<"a", "b", "c", "d", "e", "f", "g", "h", "i", "j", "k", "l", "m", "n", "o", "p", "q", "r", "s", "t", "u", "v", "w", "x", "y", "z">>

\* line 42: str.lower(), character by character
LowerChar(ch) ==
    IF \E i \in 1..Len(Uppers) : Uppers[i] = ch
      THEN Lowers[CHOOSE i \in 1..Len(Uppers) : Uppers[i] = ch]
      ELSE ch
Lower(str) == [i \in 1..Len(str) |-> LowerChar(str[i])]

\* `needle in haystack` on strings
Contains(haystack, needle) ==
    \E i \in 1..(Len(haystack) - Len(needle) + 1) :
        SubSeq(haystack, i, i + Len(needle) - 1) = needle

\* lines 43-53: the string literals of is_push_related, as written
LitAddEventListener == <<"a", "d", "d", "E", "v", "e", "n", "t", "L", "i", "s", "t", "e", "n", "e", "r">>
LitPush == <<"p", "u", "s", "h">>
LitPushmanager == <<"p", "u", "s", "h", "m", "a", "n", "a", "g", "e", "r">>
LitPushsubscription == <<"p", "u", "s", "h", "s", "u", "b", "s", "c", "r", "i", "p", "t", "i", "o", "n">>
LitPushSubscription == <<"p", "u", "s", "h", " ", "s", "u", "b", "s", "c", "r", "i", "p", "t", "i", "o", "n">>
LitShownotification == <<"s", "h", "o", "w", "n", "o", "t", "i", "f", "i", "c", "a", "t", "i", "o", "n">>
LitNotificationclick == <<"n", "o", "t", "i", "f", "i", "c", "a", "t", "i", "o", "n", "c", "l", "i", "c", "k">>
LitPushevent == <<"p", "u", "s", "h", "e", "v", "e", "n", "t">>

\* lines 43-55: the checks on c, in order
IsPushRelated(str) ==
    IF Contains(str, LitAddEventListener) /\ Contains(str, LitPush) THEN TRUE
    ELSE IF Contains(str, LitPushmanager) THEN TRUE
    ELSE IF Contains(str, LitPushsubscription) \/ Contains(str, LitPushSubscription)
      THEN TRUE
    ELSE IF Contains(str, LitShownotification) THEN TRUE
    ELSE IF Contains(str, LitNotificationclick) THEN TRUE
    ELSE IF Contains(str, LitPushevent) THEN TRUE
    ELSE FALSE

\* pieces of service-worker source the contents are made of
Fragments ==
    { <<"s", "e", "l", "f", ".", "a", "d", "d", "E", "v", "e", "n", "t", "L", "i", "s", "t", "e", "n", "e", "r", "(">>,
      <<"'", "p", "u", "s", "h", "'", ",">>,
      <<"'", "P", "U", "S", "H", "'">>,
      <<"'", "f", "e", "t", "c", "h", "'", ",">>,
      <<"r", "e", "g", "i", "s", "t", "r", "a", "t", "i", "o", "n", ".", "P", "u", "s", "h", "M", "a", "n", "a", "g", "e", "r">>,
      <<"s", "h", "o", "w", "N", "o", "t", "i", "f", "i", "c", "a", "t", "i", "o", "n", "(">> }
RECURSIVE Concat(_)
Concat(q) == IF q = <<>> THEN <<>> ELSE Head(q) \o Concat(Tail(q))
Contents == {Concat(q) : q \in SeqsUpTo(Fragments, MaxFragments)}

\* is_push_related is called on any content
InitPush ==
    /\ CrawlerInit
    /\ urls = <<>>
    /\ DedupOff
    /\ FindOff
    /\ pushStage = "called"
    /\ content \in Contents
    /\ lowered = <<>>
    /\ verdict = FALSE

\* line 42: c = content.lower()
LowerContent ==
    /\ pushStage = "called"
    /\ lowered' = Lower(content)
    /\ pushStage' = "lowered"
    /\ UNCHANGED <<crawlerVars, dedupVars, find, content, verdict>>

\* lines 43-55
ReturnVerdict ==
    /\ pushStage = "lowered"
    /\ verdict' = IsPushRelated(lowered)
    /\ pushStage' = "returned"
    /\ UNCHANGED <<crawlerVars, dedupVars, find, content, lowered>>

NextPush ==
    \/ LowerContent
    \/ ReturnVerdict

SpecPush == InitPush /\ [][NextPush]_vars

\* ------------------------------------------------------------ statements
DiskMap == IF diskIndex.kind = "json" THEN diskIndex.map ELSE EmptyMap
Successes(idx) == {u \in DOMAIN idx : idx[u] # None}
SlotsOf(idx) == {idx[u] : u \in Successes(idx)}
Dense(idx) == SlotsOf(idx) = 0..(Cardinality(Successes(idx)) - 1)
UniqueList == IsInjective(urls)
\* the threads inside process_result's with-lock block: only the result loop
\* of the main thread calls it
CommitThreads == IF InCommit THEN {"main"} ELSE {}

\* C1: for a list of unique URLs, whatever the outcomes and the completion
\* order, the slots of the in-memory Index of a run and of the persisted Index
\* are exactly 0..k-1, k the number of URLs recorded as successful: no slot is
\* skipped and no two URLs share one.
C1_DenseSlots ==
    UniqueList =>
        /\ Running => (Dense(crawled_index) /\ count = Cardinality(Successes(crawled_index)))
        /\ Dense(DiskMap)

\* C1 witness: a run returned with two successes whose slots follow the
\* completion order, not the submission order.
C1_Witness ==
    /\ pc = "returned"
    /\ UniqueList
    /\ Len(urls_to_fetch) >= 2
    /\ DiskMap = crawled_index
    /\ urls_to_fetch[1] \in DOMAIN crawled_index
    /\ urls_to_fetch[2] \in DOMAIN crawled_index
    /\ crawled_index[urls_to_fetch[1]] = 1
    /\ crawled_index[urls_to_fetch[2]] = 0

\* C2 (as claimed): whenever no process runs (before a run, after it, after a
\* termination at any point), the persisted Index is exactly the Index of the
\* last completed persist; it is never an unparsable file.
C2_CrashSafe ==
    pc = "idle" => diskIndex = lastPersisted

\* C3: in a run that follows a completed run on the same list, nothing is
\* fetched and the persisted Index and the slot files stay what the run found.
C3_IdempotentResume ==
    (Running /\ prevEnd = "completed") =>
        /\ runFetch = Zeros
        /\ diskIndex = diskAtStart[1]
        /\ files = diskAtStart[2]

\* C3 witness: the second run returned, the Index holding a success and a
\* failure of the first.
C3_Witness ==
    /\ pc = "returned"
    /\ prevEnd = "completed"
    /\ Len(urls) >= 2
    /\ Successes(DiskMap) # {}
    /\ DOMAIN DiskMap \ Successes(DiskMap) # {}
    /\ DOMAIN files # {}

C5_OneDisposition ==
    UniqueList =>
        /\ \A u \in URLS : recorded[u] <= 1
        /\ pc = "returned" =>
              \A i \in Tasks :
                  /\ urls_to_fetch[i] \in DOMAIN crawled_index
                  /\ urls_to_fetch[i] \in DOMAIN DiskMap
                  /\ recorded[urls_to_fetch[i]] = 1

\* C5 witness: a run returned with one URL recorded as a success and another
\* as FAILED.
C5_Witness ==
    /\ pc = "returned"
    /\ UniqueList
    /\ Len(urls_to_fetch) >= 2
    /\ \E i, j \in Tasks :
          /\ urls_to_fetch[i] \in Successes(DiskMap)
          /\ urls_to_fetch[j] \in DOMAIN DiskMap \ Successes(DiskMap)

\* C6 (as claimed): no step removes a key from the persisted Index, and a URL
\* persisted with a slot keeps that slot.
C6_PersistedEntriesKept ==
    [][\A u \in DOMAIN DiskMap :
          /\ u \in DOMAIN DiskMap'
          /\ DiskMap[u] # None => DiskMap'[u] = DiskMap[u]]_vars

\* C7: for a list of unique URLs, whenever the persisted Index maps a URL to a
\* slot, that slot's file exists and holds the bytes fetched for that URL.
C7_IndexFileConsistent ==
    UniqueList =>
        \A u \in Successes(DiskMap) :
            /\ DiskMap[u] \in DOMAIN files
            /\ files[DiskMap[u]] = Bytes(u)

\* C7 witness: a restart is overwriting the slot file a terminated run left
\* behind without an Index entry, next to a persisted entry of another URL.
C7_Witness ==
    /\ UniqueList
    /\ pc = "write"
    /\ prevEnd = "crashed"
    /\ Successes(DiskMap) # {}
    /\ count \in DOMAIN diskAtStart[2]

\* C8: at most one thread is inside the commit section, and it holds the lock;
\* the lock is never held outside the section.
C8_CommitMutex ==
    /\ Cardinality(CommitThreads) <= 1
    /\ \A t \in CommitThreads : lock = t
    /\ lock # "free" => InCommit

\* C8 witness: the commit section is writing a slot file while a pool thread
\* is fetching.
C8_Witness ==
    /\ pc = "write"
    /\ \E i \in Tasks : tstate[i] = "fetching"

\* C9 (as claimed): the pool threads neither read nor write the Index, the
\* slot counter or the slot files.
C9_WorkersTouchNoCrawlState ==
    workerAccess = {}

\* C10 (as claimed): process_result entered with SUCCESS or FAIL for a URL
\* that is already a key of the Index leaves the Index, the slot counter, the
\* slot files and the Index file as they were.
C10_DuplicateRejected ==
    [][(/\ pc = "cs"
        /\ cur.crawl_result \in {SUCCESS, FAIL}
        /\ IsResolved(cur.url, crawled_index)
        /\ pc' # "idle")
       => (/\ crawled_index' = crawled_index
           /\ count' = count
           /\ files' = files
           /\ diskIndex' = diskIndex)]_vars

Loaded == diskAtStart[1].map

\* C11: for a list of unique URLs, when a run returns, a URL whose fetch raised
\* is recorded as FAILED in the in-memory and in the persisted Index, every
\* other outstanding URL was requested and has the disposition of its own
\* result; and while the run lasts a raised exception leaves the result loop
\* and every other worker able to go on.
C11_FailureIsolated ==
    UniqueList =>
        /\ pc = "returned" =>
              \A i \in Tasks :
                  LET u == urls_to_fetch[i] IN
                  /\ runFetch[u] = 1
                  /\ u \in DOMAIN crawled_index /\ u \in DOMAIN DiskMap
                  /\ crawled_index[u] = DiskMap[u]
                  /\ (fut[i].raised \/ fut[i].crawl_result = FAIL) <=> DiskMap[u] = None
                  /\ (~fut[i].raised /\ fut[i].crawl_result = SUCCESS) =>
                        files[DiskMap[u]] = fut[i].content
        /\ (\E i \in Tasks : tstate[i] = "done" /\ fut[i].raised) =>
              /\ (pc = "wait" /\ completed # <<>>) => ENABLED MainTake
              /\ \A j \in Tasks : tstate[j] = "queued" => ENABLED WorkerCheck(j)
              /\ \A j \in Tasks : tstate[j] = "fetching" => ENABLED WorkerFetch(j)

\* C11 witness: a run returned in which one fetch raised and another URL
\* succeeded and got slot 0.
C11_Witness ==
    /\ pc = "returned"
    /\ UniqueList
    /\ \E i, j \in Tasks :
          /\ fut[i].raised
          /\ DiskMap[urls_to_fetch[i]] = None
          /\ ~fut[j].raised /\ fut[j].crawl_result = SUCCESS
          /\ DiskMap[urls_to_fetch[j]] = 0

\* C12: in a run the outstanding list is exactly the candidates that are not
\* keys of the Index the run loaded, and (for a list of unique URLs) no URL is
\* requested that the loaded Index holds, FAILED ones included, nor requested
\* twice, nor is a worker in a request for a URL the Index already holds.
C12_ResolvedNeverDispatched ==
    Running =>
        /\ urls_to_fetch = SelectSeq(urls, LAMBDA u : u \notin DOMAIN Loaded)
        /\ UniqueList =>
              /\ \A u \in URLS : runFetch[u] > 0 => u \notin DOMAIN Loaded
              /\ \A u \in URLS : runFetch[u] <= 1
              /\ \A i \in Tasks : tstate[i] = "fetching" =>
                    urls_to_fetch[i] \notin DOMAIN crawled_index

\* C12 witness: a restart returned that found one URL FAILED and fetched the
\* other.
C12_Witness ==
    /\ pc = "returned"
    /\ UniqueList
    /\ \E u, v \in URLS :
          /\ u \in DOMAIN Loaded /\ Loaded[u] = None
          /\ runFetch[u] = 0
          /\ runFetch[v] = 1

\* C13 (as claimed): for a list of unique URLs, during a run the in-memory
\* Index and the persisted Index differ in at most one entry, and when no
\* process runs every slot persisted by a completed persist is still in the
\* persisted Index with the same value.
C13_LagAtMostOne ==
    UniqueList =>
        /\ Running =>
              Cardinality({u \in DOMAIN crawled_index :
                  u \notin DOMAIN DiskMap \/ DiskMap[u] # crawled_index[u]}) <= 1
        /\ pc = "idle" =>
              \A u \in Successes(lastPersisted.map) :
                  u \in DOMAIN DiskMap /\ DiskMap[u] = lastPersisted.map[u]

C15_LoadOutcomes ==
    [][/\ (pc = "idle" /\ diskIndex.kind = "absent" /\ pc' # "idle") =>
              (crawled_index' = EmptyMap /\ count' = 0)
       /\ (pc = "idle" /\ diskIndex.kind = "corrupt") =>
              /\ pc' = "idle"
              /\ diskIndex' = diskIndex /\ files' = files
              /\ crawled_index' = crawled_index /\ count' = count
              /\ runFetch' = runFetch /\ recorded' = recorded
              /\ urls_to_fetch' = urls_to_fetch]_vars

\* C15 witness: a run was aborted by an Index file whose rewrite had been cut
\* short, with a slot file on disk.
C15_Witness ==
    /\ pc = "idle"
    /\ prevEnd = "aborted"
    /\ diskIndex.kind = "corrupt"
    /\ DOMAIN files # {}

\* ---------------------------------------- statements on compare_ssdeep.py
HasDigest == {f \in Files : fkind[f] = "data"}
Edges == {{pairs[i].file_a, pairs[i].file_b} : i \in 1..Len(pairs)}
\* the files a chain of retained pairs reaches from the files of S
RECURSIVE Reach(_)
Reach(S) ==
    LET N == S \cup {y \in Files : \E x \in S : {x, y} \in Edges}
    IN IF N = S THEN S ELSE Reach(N)
MembersOf(i) == SeqRange(clusters[i].members)
Clustered == stage \in {"clustered", "done"}
Compared == mode \in {"main", "index"} /\ stage \in {"union", "clustered", "done"}

\* C16: once build_clusters has returned, two distinct files are members of
\* one cluster exactly when a chain of retained pairs connects them, for the
\* pairs of compare_hashes and for any list of pairs of distinct files.
C16_ConnectedComponents ==
    Clustered =>
        \A a, b \in Files : a # b =>
            ((\E i \in 1..Len(clusters) : a \in MembersOf(i) /\ b \in MembersOf(i))
                <=> b \in Reach({a}))

\* C16 witness: 1-2 and 2-3 are retained, 1-3 is scored below the threshold,
\* and the one cluster holds 1, 2 and 3.
C16_Witness ==
    /\ mode = "main"
    /\ Clustered
    /\ score[<<1, 3>>] < threshold
    /\ Edges = {{1, 2}, {2, 3}}
    /\ Len(clusters) = 1
    /\ clusters[1].members = <<1, 2, 3>>

\* C17: the representative of every cluster is the smallest of its members in
\* the order of sorted().
C17_SmallestRepresentative ==
    Clustered =>
        \A i \in 1..Len(clusters) :
            /\ clusters[i].representative \in MembersOf(i)
            /\ \A m \in MembersOf(i) : clusters[i].representative <= m

\* C17 witness: a cluster of three whose union-find root is not its smallest
\* member, built from pairs given in an order and orientation compare_hashes
\* does not produce.
C17_Witness ==
    /\ mode = "direct"
    /\ Clustered
    /\ Len(pairs) >= 2
    /\ pairs[1].file_a > pairs[1].file_b
    /\ \E i \in 1..Len(clusters) :
          /\ Len(clusters[i].members) = 3
          /\ RootOf(uf.parent, clusters[i].representative) # clusters[i].representative

\* C18: compare_hashes retains the pair of two files with a digest exactly when
\* its score is at least the threshold, and records that score.
C18_ThresholdInclusive ==
    Compared =>
        /\ \A c \in ScorePairs : (c[1] \in HasDigest /\ c[2] \in HasDigest) =>
              ((\E i \in 1..Len(pairs) :
                    pairs[i].file_a = c[1] /\ pairs[i].file_b = c[2])
                 <=> score[c] >= threshold)
        /\ \A i \in 1..Len(pairs) :
              /\ pairs[i].score >= threshold
              /\ pairs[i].score = score[<<pairs[i].file_a, pairs[i].file_b>>]

\* C18 witness: a pair scoring exactly the threshold is retained and a pair
\* scoring one below is not.
C18_Witness ==
    /\ Compared
    /\ \E i \in 1..Len(pairs) : pairs[i].score = threshold
    /\ \E c \in ScorePairs :
          /\ c[1] \in HasDigest /\ c[2] \in HasDigest
          /\ score[c] = threshold - 1
          /\ \A i \in 1..Len(pairs) : <<pairs[i].file_a, pairs[i].file_b>> # c

\* C19: compare_hashes scores every unordered pair of distinct files with a
\* digest exactly once, and neither scores nor returns a pair of a file with
\* itself, a pair in both orientations or a pair with a file without a digest.
C19_AllPairsOnce ==
    Compared =>
        /\ \A a, b \in HasDigest : a < b =>
              Cardinality({i \in 1..Len(comparisons) :
                  {comparisons[i][1], comparisons[i][2]} = {a, b}}) = 1
        /\ \A i \in 1..Len(comparisons) :
              /\ comparisons[i][1] # comparisons[i][2]
              /\ {comparisons[i][1], comparisons[i][2]} \subseteq HasDigest
        /\ \A i \in 1..Len(pairs) :
              /\ pairs[i].file_a # pairs[i].file_b
              /\ {pairs[i].file_a, pairs[i].file_b} \subseteq HasDigest
              /\ \A j \in 1..Len(pairs) :
                    {pairs[i].file_a, pairs[i].file_b} = {pairs[j].file_a, pairs[j].file_b}
                        => i = j

\* C19 witness: two files with a digest were scored and retained next to a
\* file without one.
C19_Witness ==
    /\ Compared
    /\ no_hash # <<>>
    /\ Len(comparisons) >= 1
    /\ Len(pairs) >= 1

\* C20: build_deduplicated_list returns, in ascending order and each once, the
\* representatives of the clusters and the hashed files that are members of no
\* cluster, and nothing else.
C20_DeduplicatedComposition ==
    stage = "done" =>
        LET reps == {clusters[i].representative : i \in 1..Len(clusters)}
            unclustered == SeqRange(path_to_hash)
                              \ UNION {MembersOf(i) : i \in 1..Len(clusters)}
        IN /\ SeqRange(deduplicated) = reps \cup unclustered
           /\ Len(deduplicated) = Len(clusters) + Cardinality(unclustered)
           /\ \A i, j \in 1..Len(deduplicated) :
                 i < j => deduplicated[i] < deduplicated[j]

\* C20 witness: file 1 is in no cluster and sorts before the representative 2
\* of the cluster of 2 and 3.
C20_Witness ==
    /\ stage = "done"
    /\ mode = "main"
    /\ Len(clusters) = 1
    /\ clusters[1].members = <<2, 3>>
    /\ deduplicated = <<1, 2>>

\* C21: every cluster build_clusters returns has at least two members, and a
\* hashed file that occurs in no retained pair is a member of no cluster.
C21_NoSingletonClusters ==
    Clustered =>
        /\ \A i \in 1..Len(clusters) : Len(clusters[i].members) >= 2
        /\ \A f \in SeqRange(path_to_hash) :
              (\A e \in Edges : f \notin e)
                  => \A i \in 1..Len(clusters) : f \notin MembersOf(i)

\* C21 witness: three hashed files, 1 and 2 form the only cluster and 3 is
\* in no retained pair.
C21_Witness ==
    /\ mode = "main"
    /\ Clustered
    /\ path_to_hash = <<1, 2, 3>>
    /\ Edges = {{1, 2}}
    /\ Len(clusters) = 1

\* C22: a file of the file set that is empty, missing, unreadable or not
\* hashable gets no digest, is in the no-digest list, and is in no comparison,
\* no retained pair, no cluster and not in the deduplicated list; hashing never
\* ends the run, and every file with content gets its digest.
C22_NoDigestExcluded ==
    mode = "main" =>
        /\ stage # "aborted"
        /\ stage \notin {"start", "loaded"} =>
              \A f \in Files :
                  IF fkind[f] = "data"
                    THEN f \in SeqRange(path_to_hash) /\ f \notin SeqRange(no_hash)
                    ELSE /\ f \in SeqRange(no_hash)
                         /\ f \notin SeqRange(path_to_hash)
                         /\ \A i \in 1..Len(comparisons) :
                               f \notin {comparisons[i][1], comparisons[i][2]}
                         /\ \A e \in Edges : f \notin e
                         /\ \A i \in 1..Len(clusters) : f \notin MembersOf(i)
                         /\ f \notin SeqRange(deduplicated)

\* C22 witness: the run is done with an unreadable file in the file set and a
\* cluster of the two others.
C22_Witness ==
    /\ mode = "main"
    /\ stage = "done"
    /\ \E f \in Files : fkind[f] = "unreadable"
    /\ Len(clusters) = 1

\* the URLs of the Index whose slot is path m, by position among its keys
SourceUrls(m) == {u \in 1..Len(index) : index[u] = m}

\* C23: the urls of every cluster are exactly the source URLs of its members,
\* each once, in the order of first occurrence when the members are traversed
\* in sorted order.
C23_ClusterUrls ==
    Clustered =>
        \A i \in 1..Len(clusters) :
            LET U == clusters[i].urls IN
            /\ SeqRange(U) = UNION {SourceUrls(m) : m \in MembersOf(i)}
            /\ \A a, b \in 1..Len(U) : a < b =>
                  /\ U[a] # U[b]
                  /\ \/ index[U[a]] < index[U[b]]
                     \/ index[U[a]] = index[U[b]] /\ U[a] < U[b]

\* C23 witness: the Index lists a URL of slot 2, one of slot 1 and another of
\* slot 2; the cluster of 1 and 2 has the URL of 1 first.
C23_Witness ==
    /\ Clustered
    /\ index = <<2, 1, 2>>
    /\ Len(clusters) = 1
    /\ clusters[1].members = <<1, 2>>
    /\ clusters[1].urls = <<2, 1, 3>>

\* the retained pairs as build_clusters would get them from compare_hashes:
\* each edge once, file_a before file_b, in the order of combinations
CanonicalPairs ==
    SelectSeq(Combinations([i \in 1..NumFiles |-> i]),
              LAMBDA c : {c[1], c[2]} \in Edges)
RECURSIVE UnionAll(_, _)
UnionAll(st, q) ==
    IF q = <<>> THEN st ELSE UnionAll(Union(st, Head(q)[1], Head(q)[2]), Tail(q))
ClusterSet(cl) ==
    {[members |-> cl[i].members, representative |-> cl[i].representative] :
        i \in 1..Len(cl)}

\* C27: for any order and orientation of the pairs, build_clusters yields the
\* set of clusters (members and representative) it yields for the same edges
\* listed once each in canonical order.
C27_OrderIndependent ==
    Clustered =>
        /\ ClusterSet(clusters)
              = ClusterSet(ClustersOf(UnionAll(EmptyUF, CanonicalPairs), path_to_urls))
        /\ Cardinality(ClusterSet(clusters)) = Len(clusters)

\* C27 witness: the pairs 3-2 and 2-1 were given in that order and
\* orientation, which is not the canonical one, and gave one cluster.
C27_Witness ==
    /\ mode = "direct"
    /\ Clustered
    /\ pairsIn = <<<<3, 2>>, <<2, 1>>>>
    /\ Len(clusters) = 1
    /\ clusters[1].members = <<1, 2, 3>>

\* C28: at the end of main the clusters are pairwise disjoint, the
\* deduplicated list has no path twice and only hashed files, every hashed
\* file is in it or a member of exactly one cluster whose representative is in
\* it, and its size is the number of clusters plus the number of unclustered
\* hashed files.
C28_RepresentedOnce ==
    stage = "done" =>
        LET hashed == SeqRange(path_to_hash)
            clustersOf(f) == {i \in 1..Len(clusters) : f \in MembersOf(i)}
        IN /\ \A i, j \in 1..Len(clusters) :
                 i # j => MembersOf(i) \cap MembersOf(j) = {}
           /\ \A i, j \in 1..Len(deduplicated) :
                 deduplicated[i] = deduplicated[j] => i = j
           /\ SeqRange(deduplicated) \subseteq hashed
           /\ \A f \in hashed :
                 IF clustersOf(f) = {} THEN f \in SeqRange(deduplicated)
                 ELSE /\ Cardinality(clustersOf(f)) = 1
                      /\ \A i \in clustersOf(f) :
                            clusters[i].representative \in SeqRange(deduplicated)
           /\ Len(deduplicated)
                 = Len(clusters) + Cardinality({f \in hashed : clustersOf(f) = {}})

\* C28 witness: main is done with a cluster of 1 and 3 and the unclustered 2.
C28_Witness ==
    /\ stage = "done"
    /\ mode = "main"
    /\ Len(clusters) = 1
    /\ clusters[1].members = <<1, 3>>
    /\ deduplicated = <<1, 2>>

\* ------------------------------ statements on detect_push_providers.py
\* `needle in haystack` whatever the letter case of either
ContainsAnyCase(haystack, needle) == Contains(Lower(haystack), Lower(needle))

\* C24: is_push_related returns true for any content that contains
\* "addEventListener" and "push", each in any letter case.
C24_EventListenerSignature ==
    (/\ pushStage = "returned"
     /\ ContainsAnyCase(content, LitAddEventListener)
     /\ ContainsAnyCase(content, LitPush))
        => verdict = TRUE

\* ------------------------------------- statements on failing commits
\* C25: when a write of the commit of a successful fetch raises, the URL ends
\* as FAILED only, the slot counter still equals the number of success entries
\* of the Index, and the returned count is that number.
C25_FailedCommitKeepsCounter ==
    (UniqueList /\ pc \in {"wait", "returned"}) =>
        /\ count = Cardinality(Successes(crawled_index))
        /\ pc = "returned" => retval = Cardinality(Successes(crawled_index))

\* ------------------------------------------- statements on termination
AllResolvedOnDisk ==
    /\ \A i \in Tasks : urls_to_fetch[i] \in DOMAIN DiskMap
    /\ \A i \in 1..Len(urls) : urls[i] \in DOMAIN crawled_index

\* C26: under a fair scheduler and fetches that return or raise, every run of
\* download_with_record returns, and when it has returned every outstanding
\* URL has a disposition in the persisted Index.
C26_Terminates == (pc = "wait") ~> (pc = "returned" /\ AllResolvedOnDisk)

\* C26 witness: a run of two outstanding URLs has returned, one fetch raised,
\* and both URLs are in the persisted Index.
C26_Witness ==
    /\ pc = "returned"
    /\ Len(urls_to_fetch) = 2
    /\ \E i \in Tasks : fut[i].raised
    /\ AllResolvedOnDisk

\* --------------------------- statements on the sequential downloader
SlotsDistinct(idx) == \A u, v \in Successes(idx) : idx[u] = idx[v] => u = v

\* C29: for a list of unique URLs, over any runs and restarts of the
\* sequential downloader, no two URLs have the same slot in the in-memory or
\* persisted Index, the slot of a URL is a file that URL's download created,
\* and a slot file once created is only ever completed with the content of the
\* URL that created it.
C29_NoSlotReuse ==
    [][UniqueList =>
          /\ SlotsDistinct(crawled_index')
          /\ SlotsDistinct(DiskMap')
          /\ \A u \in Successes(DiskMap') :
                DiskMap'[u] \in DOMAIN owner' /\ owner'[DiskMap'[u]] = u
          /\ \A sl \in DOMAIN files :
                /\ sl \in DOMAIN files'
                /\ owner'[sl] = owner[sl]
                /\ files'[sl] \in {files[sl], Bytes(owner[sl])}]_vars

\* C29 witness: a run recorded a failure and was terminated; the run after it
\* recorded a success of another URL in slot 1.
C29_Witness ==
    /\ UniqueList
    /\ prevEnd = "crashed"
    /\ \E u, v \in DOMAIN DiskMap :
          /\ DiskMap[u] = None
          /\ DiskMap[v] = 1
          /\ files[1] = Bytes(v)

\* C30: for a list of unique URLs, a run of the sequential downloader started
\* after a terminated run does not abort on loading the Index or on a slot
\* file that exists.
C30_ResumesAfterCrash ==
    (UniqueList /\ prevEnd = "crashed") => pc \notin {"load_error", "file_exists"}

\* ------------------------------------------------- statements on find
\* the node k parent links above n
RECURSIVE Ancestor(_, _, _)
Ancestor(p, n, k) == IF k = 0 THEN n ELSE Ancestor(p, p[n], k - 1)
\* where n's chain of parents is after as many links as there are nodes: its
\* root, unless the chain runs into a cycle
TopOf(p, n) == Ancestor(p, n, Cardinality(DOMAIN p))
Acyclic(p) == \A n \in DOMAIN p : p[TopOf(p, n)] = TopOf(p, n)
SamePartition(p, q) ==
    /\ DOMAIN p = DOMAIN q
    /\ \A n, m \in DOMAIN p : (TopOf(p, n) = TopOf(p, m)) <=> (TopOf(q, n) = TopOf(q, m))

FindPreserves ==
    /\ Acyclic(uf.parent)
    /\ find.pc # "idle" => SamePartition(uf.parent, find.atCall)
    /\ find.pc = "ret" =>
          /\ find.x = TopOf(find.atCall, find.arg)
          /\ \A n \in find.visited : uf.parent[n] = find.x
          /\ uf = FindState([uf EXCEPT !.parent = find.atCall], find.arg)

\* C31: in every parent map the unions of build_clusters reach, the only
\* cycles are the self-loops of roots; a call of find returns, with the root of
\* its argument's tree, every node it visited pointing at that root and the
\* same components as before the call.
C31_FindTerminatesAndPreserves ==
    /\ []FindPreserves
    /\ (find.pc = "walk") ~> (find.pc = "ret")

\* C31 witness: find has returned after walking over two nodes, both of which
\* now point at the root.
C31_Witness ==
    /\ find.pc = "ret"
    /\ Cardinality(find.visited) = 2
    /\ \A n \in find.visited : find.atCall[n] # uf.parent[n] \/ find.atCall[n] = find.x
    /\ \E n \in find.visited : find.atCall[n] # find.x

====
